---- MODULE Spec2Model ----
(***************************************************************************)
(* Model of the market contract's approval callbacks                       *)
(* (contracts/market/src/nft_callbacks.rs): nft_on_approve and             *)
(* series_on_approve, the sales table, the three view indices, the storage *)
(* deposits they read and the refund promise of the series path.           *)
(*                                                                         *)
(* Strings that the code concatenates or searches (contract ids, token     *)
(* ids, token types, series names) are sequences of one-character strings, *)
(* so format!() and str::contains are computed, not assumed.               *)
(* Option<T> is a set: {} is None and {v} is Some(v).                      *)
(***************************************************************************)
EXTENDS Integers, Sequences, FiniteSets, TLC

(* ------------------------------------------------------------------ *)
(* Bounds of the model                                                 *)
(* ------------------------------------------------------------------ *)

\* committed approvals per behaviour (each lands in its own block)
MaxApprovals == 2

\* a plain storage_deposit call is taken while it leaves at most this much
\* in the ledger, all accounts together
MaxDeposit == 3

(* ------------------------------------------------------------------ *)
(* Program constants and input domains                                 *)
(* ------------------------------------------------------------------ *)

\* yoctoNEAR per sale; the model counts in half units so that a deposit
\* can cover one and a half sales
STORAGE_PER_SALE == 2

DELIMETER == <<"|">>

None == {}

Some(v) == {v}

unwrap_or(opt, default) == IF opt = None THEN default ELSE CHOOSE v \in opt : TRUE

Accounts == {"alice", "bob"}

NftContracts == {<<"x">>, <<"y">>}

TokenIds == {<<"a", "b">>}

SeriesNames == {<<"a", "b">>}

\* token types a caller may assert: a substring of "ab", and a string over
\* the same characters that is not a substring of it
TokenTypes == {<<"b">>, <<"b", "a">>}

TypeKeys == TokenTypes \cup SeriesNames

FtTokenIds == {"near", "ft1", "bad"}

Price(price, ft_token_id) == [price |-> price, ft_token_id |-> ft_token_id]

\* the sale_conditions lists of the inputs: a currency given twice, the
\* second time without a price; another currency with a price; and an
\* unregistered currency after a registered one
SaleConditionsInputs ==
    { <<Price(Some(5), "near"), Price(None, "near")>>,
      <<Price(Some(5), "ft1")>>,
      <<Price(Some(5), "near"), Price(Some(5), "bad")>> }

SaleArgs(sale_conditions, token_type) ==
    [sale_conditions |-> sale_conditions, token_type |-> token_type]

\* a msg is text; from_str either yields the SaleArgs it encodes or fails.
\* The text is represented by its parse: None for text that is no SaleArgs.
Msgs ==
    {None} \cup
    { Some(SaleArgs(sc, tt)) :
        sc \in SaleConditionsInputs,
        tt \in {None} \cup {Some(t) : t \in TokenTypes} }

SeriesMsgs ==
    {None} \cup { Some(SaleArgs(sc, None)) : sc \in SaleConditionsInputs }

ApprovalIds == {7}

AttachedDeposits == {STORAGE_PER_SALE - 1, STORAGE_PER_SALE, STORAGE_PER_SALE + 1}

\* a plain deposit pays for one sale, or for one sale and a half
DepositAmounts == {STORAGE_PER_SALE, STORAGE_PER_SALE + 1}

(* ------------------------------------------------------------------ *)
(* State                                                               *)
(* ------------------------------------------------------------------ *)

VARIABLES
    storage_deposits,     \* account -> deposit (0: no entry)
    ft_token_ids,         \* the registered fungible tokens
    sales,                \* contract_and_token_id -> Sale
    by_owner_id,          \* account -> set of contract_and_token_id
    by_nft_contract_id,   \* nft contract -> set of contract_and_token_id
    by_nft_token_type,    \* token type -> set of contract_and_token_id
    promises,             \* transfers scheduled and not yet resolved
    block_timestamp,      \* env::block_timestamp()
    last                  \* the last call: its arguments, outcome and the state before it

vars == <<storage_deposits, ft_token_ids, sales, by_owner_id, by_nft_contract_id,
          by_nft_token_type, promises, block_timestamp, last>>

\* the contract's persistent fields, as one record that a call reads and writes
Contract ==
    [ storage_deposits |-> storage_deposits,
      ft_token_ids |-> ft_token_ids,
      sales |-> sales,
      by_owner_id |-> by_owner_id,
      by_nft_contract_id |-> by_nft_contract_id,
      by_nft_token_type |-> by_nft_token_type ]

EmptyMap == [k \in {} |-> 0]

\* HashMap::insert / LookupMap::insert: the entry for k is replaced
MapInsert(m, k, v) == [x \in (DOMAIN m) \cup {k} |-> IF x = k THEN v ELSE m[x]]

\* str::contains
Contains(s, t) ==
    \E i \in 0..(Len(s) - Len(t)) : SubSeq(s, i + 1, i + Len(t)) = t

\* ContractAndTokenId without the contract: the token id alone is the key
ContractAndTokenIdTokenOnly(nft_contract_id, token_id) == token_id

\* format!("{}{}{}", nft_contract_id, DELIMETER, token_id)
ContractAndTokenId(nft_contract_id, token_id) ==
    nft_contract_id \o DELIMETER \o token_id

(* ------------------------------------------------------------------ *)
(* Steps shared by the two callbacks                                   *)
(* ------------------------------------------------------------------ *)

\* where a call stands: the contract fields as written so far, the promises
\* it has created, and "ok" or the reason it panicked
Run(self, created, err) == [self |-> self, created |-> created, err |-> err]

\* assert!(owner_paid_storage >= STORAGE_PER_SALE, ...)
HasMinimumStorage(owner_paid_storage) == owner_paid_storage >= STORAGE_PER_SALE

\* HasFreeStorage with >= for >: the last paid unit is handed out twice
HasFreeStorageOrEqual(owner_paid_storage, len) ==
    owner_paid_storage >= len * STORAGE_PER_SALE

\* HasFreeStorage counting the sale being added among the occupied ones
HasFreeStorageForOneMore(owner_paid_storage, len) ==
    owner_paid_storage > (len + 1) * STORAGE_PER_SALE

\* assert!(owner_paid_storage > owner_occupied_storage, ...), with
\* owner_occupied_storage = by_owner_id.len() * STORAGE_PER_SALE
HasFreeStorage(owner_paid_storage, len) ==
    owner_paid_storage > len * STORAGE_PER_SALE

\* ConditionsLoop that looks up the registry for the first entry only
RECURSIVE ConditionsLoopFirstOnly(_, _, _, _)
ConditionsLoopFirstOnly(sale_conditions, i, conditions, registered) ==
    IF i > Len(sale_conditions)
    THEN [err |-> "ok", conditions |-> conditions]
    ELSE IF i = 1 /\ sale_conditions[i].ft_token_id \notin registered
         THEN [err |-> "UnsupportedCurrency", conditions |-> conditions]
         ELSE ConditionsLoopFirstOnly(sale_conditions, i + 1,
                  [x \in (DOMAIN conditions) \cup {sale_conditions[i].ft_token_id} |->
                      IF x = sale_conditions[i].ft_token_id
                      THEN unwrap_or(sale_conditions[i].price, 0)
                      ELSE conditions[x]],
                  registered)

\* ConditionsLoop without the lookup in the registry
RECURSIVE ConditionsLoopUnchecked(_, _, _, _)
ConditionsLoopUnchecked(sale_conditions, i, conditions, registered) ==
    IF i > Len(sale_conditions)
    THEN [err |-> "ok", conditions |-> conditions]
    ELSE ConditionsLoopUnchecked(sale_conditions, i + 1,
             MapInsert(conditions, sale_conditions[i].ft_token_id,
                       unwrap_or(sale_conditions[i].price, 0)),
             registered)

\* ConditionsLoop that keeps the first entry of a token (entry().or_insert)
RECURSIVE ConditionsLoopKeepFirst(_, _, _, _)
ConditionsLoopKeepFirst(sale_conditions, i, conditions, registered) ==
    IF i > Len(sale_conditions)
    THEN [err |-> "ok", conditions |-> conditions]
    ELSE IF sale_conditions[i].ft_token_id \notin registered
         THEN [err |-> "UnsupportedCurrency", conditions |-> conditions]
         ELSE ConditionsLoopKeepFirst(sale_conditions, i + 1,
                  IF sale_conditions[i].ft_token_id \in DOMAIN conditions
                  THEN conditions
                  ELSE MapInsert(conditions, sale_conditions[i].ft_token_id,
                                 unwrap_or(sale_conditions[i].price, 0)),
                  registered)

\* the loop over sale_conditions, from entry i on: panics at the first
\* token that is not registered, otherwise inserts the entry (a later entry
\* for the same token replaces the earlier one; no price is price 0)
RECURSIVE ConditionsLoop(_, _, _, _)
ConditionsLoop(sale_conditions, i, conditions, registered) ==
    IF i > Len(sale_conditions)
    THEN [err |-> "ok", conditions |-> conditions]
    ELSE IF sale_conditions[i].ft_token_id \notin registered
         THEN [err |-> "UnsupportedCurrency", conditions |-> conditions]
         ELSE ConditionsLoop(sale_conditions, i + 1,
                  MapInsert(conditions, sale_conditions[i].ft_token_id,
                            unwrap_or(sale_conditions[i].price, 0)),
                  registered)

\* the Sale that nft_on_approve writes
NftSale(owner_id, now, approval_id, nft_contract_id, token_id, conditions, token_type) ==
    [ owner_id |-> owner_id,
      created_at |-> now,
      approval_id |-> approval_id,
      nft_contract_id |-> nft_contract_id,
      token_id |-> token_id,
      conditions |-> conditions,
      is_series |-> None,
      token_type |-> token_type,
      bids |-> None ]

\* SeriesSale without the series flag
SeriesSaleUnflagged(owner_id, now, nft_contract_id, series_name, conditions) ==
    [ owner_id |-> owner_id,
      created_at |-> now,
      approval_id |-> 0,
      nft_contract_id |-> nft_contract_id,
      token_id |-> series_name,
      conditions |-> conditions,
      is_series |-> None,
      token_type |-> None,
      bids |-> None ]

\* the Sale that series_on_approve writes
SeriesSale(owner_id, now, nft_contract_id, series_name, conditions) ==
    [ owner_id |-> owner_id,
      created_at |-> now,
      approval_id |-> 0,
      nft_contract_id |-> nft_contract_id,
      token_id |-> series_name,
      conditions |-> conditions,
      is_series |-> Some(TRUE),
      token_type |-> None,
      bids |-> None ]

\* InsertSale that merges into an existing sale: the prices of the tokens
\* the new conditions do not name are kept
InsertSaleMerging(self, contract_and_token_id, sale) ==
    [self EXCEPT !.sales =
        [k \in (DOMAIN @) \cup {contract_and_token_id} |->
            IF k # contract_and_token_id
            THEN @[k]
            ELSE IF k \notin DOMAIN @
                 THEN sale
                 ELSE [sale EXCEPT !.conditions =
                          [c \in (DOMAIN sale.conditions) \cup (DOMAIN self.sales[k].conditions) |->
                              IF c \in DOMAIN sale.conditions
                              THEN sale.conditions[c]
                              ELSE self.sales[k].conditions[c]]]]]

\* InsertSale that updates an existing sale in place: the series flag and
\* the token type it was created with are kept
InsertSaleKeepingKind(self, contract_and_token_id, sale) ==
    [self EXCEPT !.sales =
        [k \in (DOMAIN @) \cup {contract_and_token_id} |->
            IF k # contract_and_token_id
            THEN @[k]
            ELSE IF k \notin DOMAIN @
                 THEN sale
                 ELSE [sale EXCEPT !.is_series = self.sales[k].is_series,
                                   !.token_type = self.sales[k].token_type]]]

\* self.sales.insert(&contract_and_token_id, &Sale {..})
InsertSale(self, contract_and_token_id, sale) ==
    [self EXCEPT !.sales = MapInsert(@, contract_and_token_id, sale)]

\* InsertByOwnerId that takes the unit the sale occupies out of the owner's
\* deposit
InsertByOwnerIdCharging(self, owner_id, contract_and_token_id) ==
    [self EXCEPT !.by_owner_id[owner_id] = @ \cup {contract_and_token_id},
                 !.storage_deposits[owner_id] = @ - STORAGE_PER_SALE]

\* InsertByOwnerId that takes the key out of the sets of the other owners
InsertByOwnerIdMoving(self, owner_id, contract_and_token_id) ==
    [self EXCEPT !.by_owner_id =
        [a \in DOMAIN @ |->
            IF a = owner_id
            THEN @[a] \cup {contract_and_token_id}
            ELSE @[a] \ {contract_and_token_id}]]

\* by_owner_id.insert(..); self.by_owner_id.insert(owner_id, &by_owner_id)
InsertByOwnerId(self, owner_id, contract_and_token_id) ==
    [self EXCEPT !.by_owner_id[owner_id] = @ \cup {contract_and_token_id}]

\* by_nft_contract_id.insert(..); self.by_nft_contract_id.insert(..)
InsertByNftContractId(self, nft_contract_id, contract_and_token_id) ==
    [self EXCEPT !.by_nft_contract_id[nft_contract_id] = @ \cup {contract_and_token_id}]

\* by_nft_token_type.insert(..); self.by_nft_token_type.insert(..)
InsertByNftTokenType(self, token_type, contract_and_token_id) ==
    [self EXCEPT !.by_nft_token_type[token_type] = @ \cup {contract_and_token_id}]

\* Outcome with a rollback of the sales table alone
OutcomeRestoringSales(pre, run) ==
    IF run.err = "ok"
    THEN run
    ELSE Run([run.self EXCEPT !.sales = pre.sales], <<>>, run.err)

\* Outcome without the rollback: the writes made before the panic stay
OutcomeKeepsWrites(pre, run) == run

\* a panic (env::panic, a failed assert!, a failed expect) ends the call and
\* the host discards every write and every promise the call has made
Outcome(pre, run) ==
    IF run.err = "ok" THEN run ELSE Run(pre, <<>>, run.err)

(* ------------------------------------------------------------------ *)
(* The quota ledger (lib.rs, outside this file)                        *)
(* ------------------------------------------------------------------ *)

\* self.storage_amount(): the price of the storage of one sale
storage_amount(self) == STORAGE_PER_SALE

\* self.storage_deposit(Some(account_id), Some(amount)): charges amount of
\* the attached payment to account_id's deposit; fails when the payment
\* does not cover it
storage_deposit(self, attached_deposit, account_id, amount) ==
    IF attached_deposit < amount
    THEN Run(self, <<>>, "QuotaPurchaseFailed")
    ELSE Run([self EXCEPT !.storage_deposits[account_id] = @ + amount], <<>>, "ok")

(* ------------------------------------------------------------------ *)
(* nft_on_approve                                                      *)
(* ------------------------------------------------------------------ *)

\* NftTokenTypeStep with starts_with for contains
NftTokenTypeStepPrefix(self, token_id, token_type, contract_and_token_id) ==
    IF token_type = None
    THEN Run(self, <<>>, "ok")
    ELSE LET tt == unwrap_or(token_type, <<>>)
         IN  IF ~(Len(tt) <= Len(token_id) /\ SubSeq(token_id, 1, Len(tt)) = tt)
             THEN Run(self, <<>>, "InvalidCategoryTag")
             ELSE Run(InsertByNftTokenType(self, tt, contract_and_token_id), <<>>, "ok")

\* from line 98 on: the token type check and the by_nft_token_type insert
NftTokenTypeStep(self, token_id, token_type, contract_and_token_id) ==
    IF token_type = None
    THEN Run(self, <<>>, "ok")
    ELSE LET tt == unwrap_or(token_type, <<>>)
         IN  IF ~Contains(token_id, tt)
             THEN Run(self, <<>>, "InvalidCategoryTag")
             ELSE Run(InsertByNftTokenType(self, tt, contract_and_token_id), <<>>, "ok")

\* NftInsertStep that enters the key in the owner's set first and checks the
\* storage against the set after that
NftInsertStepIndexFirst(self, now, predecessor, token_id, owner_id, approval_id, owner_paid_storage, conditions, token_type) ==
    LET contract_and_token_id == ContractAndTokenId(predecessor, token_id)
        s1 == InsertByOwnerId(
                  InsertSale(self, contract_and_token_id,
                      NftSale(owner_id, now, approval_id, predecessor, token_id,
                              conditions, token_type)),
                  owner_id, contract_and_token_id)
        by_owner_id_set == s1.by_owner_id[owner_id]
    IN  IF ~HasFreeStorage(owner_paid_storage, Cardinality(by_owner_id_set) - 1)
        THEN Run(s1, <<>>, "InsufficientQuota")
        ELSE NftTokenTypeStep(
                 InsertByNftContractId(s1, predecessor, contract_and_token_id),
                 token_id, token_type, contract_and_token_id)

\* from line 54 on: the sale is written, then the storage check against the
\* owner's set as it is before this key is inserted, then the indices
NftInsertStep(self, now, predecessor, token_id, owner_id, approval_id, owner_paid_storage, conditions, token_type) ==
    LET contract_and_token_id == ContractAndTokenId(predecessor, token_id)
        s1 == InsertSale(self, contract_and_token_id,
                  NftSale(owner_id, now, approval_id, predecessor, token_id,
                          conditions, token_type))
        by_owner_id_set == s1.by_owner_id[owner_id]
    IN  IF ~HasFreeStorage(owner_paid_storage, Cardinality(by_owner_id_set))
        THEN Run(s1, <<>>, "InsufficientQuota")
        ELSE NftTokenTypeStep(
                 InsertByNftContractId(
                     InsertByOwnerId(s1, owner_id, contract_and_token_id),
                     predecessor, contract_and_token_id),
                 token_id, token_type, contract_and_token_id)

\* the whole callback, in program order, up to its return or its panic
nft_on_approve(self, now, predecessor, token_id, owner_id, approval_id, msg) ==
    LET owner_paid_storage == self.storage_deposits[owner_id]
    IN  IF ~HasMinimumStorage(owner_paid_storage)
        THEN Run(self, <<>>, "InsufficientQuota")
        ELSE IF msg = None
             THEN Run(self, <<>>, "MalformedRequest")
             ELSE LET args == unwrap_or(msg, None)
                      loop == ConditionsLoop(args.sale_conditions, 1, EmptyMap,
                                             self.ft_token_ids)
                  IN  IF loop.err # "ok"
                      THEN Run(self, <<>>, loop.err)
                      ELSE NftInsertStep(self, now, predecessor, token_id, owner_id,
                               approval_id, owner_paid_storage, loop.conditions,
                               args.token_type)

(* ------------------------------------------------------------------ *)
(* series_on_approve                                                   *)
(* ------------------------------------------------------------------ *)

\* RefundAmount that sends the whole payment back
RefundAmountWhole(attached_deposit, amount) == attached_deposit

\* attached_deposit().saturating_sub(storage_amount)
RefundAmount(attached_deposit, amount) ==
    IF attached_deposit >= amount THEN attached_deposit - amount ELSE 0

\* Promise::new(owner_id).transfer(..): no callback is chained to it
RefundPromise(owner_id, attached_deposit, amount) ==
    [receiver_id |-> owner_id, amount |-> RefundAmount(attached_deposit, amount)]

\* from line 156 on: the sale, the storage check, the three indices
SeriesInsertStep(self, created, now, predecessor, series_name, owner_id, owner_paid_storage, conditions) ==
    LET contract_and_token_id == ContractAndTokenId(predecessor, series_name)
        s1 == InsertSale(self, contract_and_token_id,
                  SeriesSale(owner_id, now, predecessor, series_name, conditions))
        by_owner_id_set == s1.by_owner_id[owner_id]
    IN  IF ~HasFreeStorage(owner_paid_storage, Cardinality(by_owner_id_set))
        THEN Run(s1, created, "InsufficientQuota")
        ELSE Run(InsertByNftTokenType(
                     InsertByNftContractId(
                         InsertByOwnerId(s1, owner_id, contract_and_token_id),
                         predecessor, contract_and_token_id),
                     series_name, contract_and_token_id),
                 created, "ok")

\* from line 129 on, with the storage of one sale paid
SeriesAfterDeposit(self, now, predecessor, attached_deposit, amount, series_name, owner_id, args) ==
    LET created == <<RefundPromise(owner_id, attached_deposit, amount)>>
        owner_paid_storage == self.storage_deposits[owner_id]
    IN  IF ~HasMinimumStorage(owner_paid_storage)
        THEN Run(self, created, "InsufficientQuota")
        ELSE LET loop == ConditionsLoop(args.sale_conditions, 1, EmptyMap,
                                        self.ft_token_ids)
             IN  IF loop.err # "ok"
                 THEN Run(self, created, loop.err)
                 ELSE SeriesInsertStep(self, created, now, predecessor, series_name,
                          owner_id, owner_paid_storage, loop.conditions)

\* the whole callback; msg is a SaleArgs argument, so a msg that is none
\* fails when the arguments are read, before the body runs
series_on_approve(self, now, predecessor, attached_deposit, series_name, owner_id, msg) ==
    IF msg = None
    THEN Run(self, <<>>, "MalformedRequest")
    ELSE LET amount == storage_amount(self)
             paid == storage_deposit(self, attached_deposit, owner_id, amount)
         IN  IF paid.err # "ok"
             THEN paid
             ELSE SeriesAfterDeposit(paid.self, now, predecessor, attached_deposit,
                      amount, series_name, owner_id, unwrap_or(msg, None))

\* TransferResolved with a callback that, when the refund fails, takes the
\* receiver's sales off the market again
TransferResolvedUndoing(self, promise, succeeded) ==
    IF succeeded
    THEN self
    ELSE [self EXCEPT !.sales =
             [k \in {j \in DOMAIN @ : @[j].owner_id # promise.receiver_id} |-> @[k]]]

\* what the resolution of a transfer promise does to the contract: nothing,
\* whether the transfer succeeded or not, since no callback was chained
TransferResolved(self, promise, succeeded) == self

(* ------------------------------------------------------------------ *)
(* The state machine                                                   *)
(* ------------------------------------------------------------------ *)

Call(op, err, predecessor, owner_id, token_id, approval_id, msg, attached_deposit) ==
    [ op |-> op, err |-> err, predecessor |-> predecessor, owner_id |-> owner_id,
      token_id |-> token_id, approval_id |-> approval_id, msg |-> msg,
      attached_deposit |-> attached_deposit,
      pre |-> Contract, pre_promises |-> promises ]

\* the contract after new(): nothing deposited, nothing listed; the owner
\* has registered two fungible tokens
Init ==
    /\ storage_deposits = [a \in Accounts |-> 0]
    /\ ft_token_ids = {"near", "ft1"}
    /\ sales = EmptyMap
    /\ by_owner_id = [a \in Accounts |-> {}]
    /\ by_nft_contract_id = [c \in NftContracts |-> {}]
    /\ by_nft_token_type = [t \in TypeKeys |-> {}]
    /\ promises = <<>>
    /\ block_timestamp = 0
    /\ last = [ op |-> "new", err |-> "ok", predecessor |-> <<>>, owner_id |-> "",
                token_id |-> <<>>, approval_id |-> 0, msg |-> None,
                attached_deposit |-> 0,
                pre |-> [ storage_deposits |-> [a \in Accounts |-> 0],
                          ft_token_ids |-> {"near", "ft1"},
                          sales |-> EmptyMap,
                          by_owner_id |-> [a \in Accounts |-> {}],
                          by_nft_contract_id |-> [c \in NftContracts |-> {}],
                          by_nft_token_type |-> [t \in TypeKeys |-> {}] ],
                pre_promises |-> <<>> ]

\* an aborted call leaves every field and the promise queue as they were, so
\* whatever can follow it can follow the state before it: a behaviour is not
\* continued past an aborted call, it is continued from the state before it
Aborted ==
    /\ last.op \in {"nft_on_approve", "series_on_approve"}
    /\ last.err # "ok"

\* the fields and the promise queue after a call that ended as out
Apply(out) ==
    /\ storage_deposits' = out.self.storage_deposits
    /\ ft_token_ids' = out.self.ft_token_ids
    /\ sales' = out.self.sales
    /\ by_owner_id' = out.self.by_owner_id
    /\ by_nft_contract_id' = out.self.by_nft_contract_id
    /\ by_nft_token_type' = out.self.by_nft_token_type
    /\ promises' = promises \o out.created
    /\ block_timestamp' = IF out.err = "ok" THEN block_timestamp + 1 ELSE block_timestamp

\* what the ledger holds for the accounts of S
RECURSIVE LedgerTotal(_, _)
LedgerTotal(deposits, S) ==
    IF S = {}
    THEN 0
    ELSE LET a == CHOOSE x \in S : TRUE
         IN  deposits[a] + LedgerTotal(deposits, S \ {a})

\* an account buys storage with a plain storage_deposit call
StorageDepositCall ==
    /\ ~Aborted
    /\ \E account_id \in Accounts, amount \in DepositAmounts :
           /\ LedgerTotal(storage_deposits, Accounts) + amount <= MaxDeposit
           /\ LET out == Outcome(Contract,
                             storage_deposit(Contract, amount, account_id, amount))
              IN  /\ storage_deposits' = out.self.storage_deposits
                  /\ last' = Call("storage_deposit", out.err, <<>>, account_id, <<>>, 0,
                                  None, amount)
    /\ UNCHANGED <<ft_token_ids, sales, by_owner_id, by_nft_contract_id,
                   by_nft_token_type, promises, block_timestamp>>

\* an nft contract reports an approval of one token
NftOnApproveCall ==
    /\ ~Aborted
    /\ block_timestamp < MaxApprovals
    /\ \E predecessor \in NftContracts, token_id \in TokenIds, owner_id \in Accounts,
          approval_id \in ApprovalIds, msg \in Msgs :
           LET out == Outcome(Contract,
                          nft_on_approve(Contract, block_timestamp, predecessor,
                                         token_id, owner_id, approval_id, msg))
           IN  /\ Apply(out)
               /\ last' = Call("nft_on_approve", out.err, predecessor, owner_id,
                               token_id, approval_id, msg, 0)

\* an nft contract reports an approval of a whole series, with a payment
SeriesOnApproveCall ==
    /\ ~Aborted
    /\ block_timestamp < MaxApprovals
    /\ \E predecessor \in NftContracts, series_name \in SeriesNames, owner_id \in Accounts,
          attached_deposit \in AttachedDeposits, msg \in SeriesMsgs :
           LET out == Outcome(Contract,
                          series_on_approve(Contract, block_timestamp, predecessor,
                                            attached_deposit, series_name, owner_id, msg))
           IN  /\ Apply(out)
               /\ last' = Call("series_on_approve", out.err, predecessor, owner_id,
                               series_name, 0, msg, attached_deposit)

\* a scheduled transfer is carried out, or fails at the receiver
TransferResolve ==
    /\ ~Aborted
    /\ \E i \in 1..Len(promises), succeeded \in BOOLEAN :
           LET self == TransferResolved(Contract, promises[i], succeeded)
           IN  /\ storage_deposits' = self.storage_deposits
               /\ ft_token_ids' = self.ft_token_ids
               /\ sales' = self.sales
               /\ by_owner_id' = self.by_owner_id
               /\ by_nft_contract_id' = self.by_nft_contract_id
               /\ by_nft_token_type' = self.by_nft_token_type
               /\ promises' = SubSeq(promises, 1, i - 1) \o SubSeq(promises, i + 1, Len(promises))
               /\ block_timestamp' = block_timestamp
               /\ last' = Call("transfer", IF succeeded THEN "ok" ELSE "TransferFailed",
                               <<>>, promises[i].receiver_id, <<>>, 0, None,
                               promises[i].amount)

Next ==
    \/ StorageDepositCall
    \/ NftOnApproveCall
    \/ SeriesOnApproveCall
    \/ TransferResolve

Spec == Init /\ [][Next]_vars

(* ------------------------------------------------------------------ *)
(* Vocabulary of the properties                                        *)
(* ------------------------------------------------------------------ *)

LastIsNft == last.op = "nft_on_approve"

LastIsSeries == last.op = "series_on_approve"

LastIsApproval == LastIsNft \/ LastIsSeries

\* the listing key of the last approval
LastKey == ContractAndTokenId(last.predecessor, last.token_id)

LastParsed == last.msg # None

LastArgs == unwrap_or(last.msg, None)

\* the payload of the last approval names a currency outside the registry
LastHasUnregistered ==
    /\ LastParsed
    /\ \E i \in DOMAIN LastArgs.sale_conditions :
           LastArgs.sale_conditions[i].ft_token_id \notin last.pre.ft_token_ids

\* the quota purchase of the last (category) approval went through
LastPurchased == last.attached_deposit >= STORAGE_PER_SALE

\* what the lister of the last approval had reserved when the quota checks
\* ran: the deposit before the call, plus the unit a category approval buys
LastPaid ==
    last.pre.storage_deposits[last.owner_id]
        + (IF LastIsSeries /\ LastPurchased THEN STORAGE_PER_SALE ELSE 0)

\* the lister's live listings before the last approval, in deposit terms
LastUsed == Cardinality(last.pre.by_owner_id[last.owner_id]) * STORAGE_PER_SALE

\* whole quota units that an account's deposit covers
currentQuotaUnits(account_id) == storage_deposits[account_id] \div STORAGE_PER_SALE

\* the Listing Store, the indices, the ledger and the promise queue are as
\* they were before the last call
NothingRetained ==
    /\ sales = last.pre.sales
    /\ by_owner_id = last.pre.by_owner_id
    /\ by_nft_contract_id = last.pre.by_nft_contract_id
    /\ by_nft_token_type = last.pre.by_nft_token_type
    /\ storage_deposits = last.pre.storage_deposits
    /\ promises = last.pre_promises

\* the key is in no index set
InNoIndex(key) ==
    /\ \A a \in Accounts : key \notin by_owner_id[a]
    /\ \A c \in NftContracts : key \notin by_nft_contract_id[c]
    /\ \A t \in TypeKeys : key \notin by_nft_token_type[t]

\* t occurs in s: s is some prefix, then t, then some suffix
IsSubstring(t, s) ==
    \E i \in 0..Len(s), j \in 0..Len(s) :
        /\ i <= j
        /\ j - i = Len(t)
        /\ \A k \in 1..Len(t) : s[i + k] = t[k]

\* the price map a list of price conditions stands for: one entry per
\* currency named, at the price of its last mention, none being zero
ConditionsOf(sale_conditions) ==
    [ c \in {sale_conditions[i].ft_token_id : i \in DOMAIN sale_conditions} |->
        LET at == CHOOSE i \in DOMAIN sale_conditions :
                      /\ sale_conditions[i].ft_token_id = c
                      /\ \A j \in DOMAIN sale_conditions :
                             sale_conditions[j].ft_token_id = c => j <= i
        IN  IF sale_conditions[at].price = None
            THEN 0
            ELSE CHOOSE v \in sale_conditions[at].price : TRUE ]

(* ------------------------------------------------------------------ *)
(* C1  Quota invariant                                                 *)
(* ------------------------------------------------------------------ *)

\* C1: in every reachable state, every lister has fewer listing keys in its
\* by-lister set than its whole quota units plus one, i.e. never more live
\* listings than paid quota units.
QuotaInvariant ==
    \A L \in Accounts : Cardinality(by_owner_id[L]) < currentQuotaUnits(L) + 1

(* ------------------------------------------------------------------ *)
(* C2  Atomicity                                                       *)
(* ------------------------------------------------------------------ *)

\* C2: after an approval of either kind that failed a precondition, the
\* Listing Store, the three indices and the lister's quota balance are what
\* they were before the call.
Atomicity ==
    (LastIsApproval /\ last.err # "ok") =>
        /\ sales = last.pre.sales
        /\ by_owner_id = last.pre.by_owner_id
        /\ by_nft_contract_id = last.pre.by_nft_contract_id
        /\ by_nft_token_type = last.pre.by_nft_token_type
        /\ storage_deposits[last.owner_id] = last.pre.storage_deposits[last.owner_id]

\* a single-item approval that failed on its category tag, the last check in
\* program order, after the listing and two indices had been written
AtomicityWitness ==
    /\ LastIsNft
    /\ last.err = "InvalidCategoryTag"
    /\ LastKey \notin DOMAIN sales
    /\ LastKey \notin by_owner_id[last.owner_id]

(* ------------------------------------------------------------------ *)
(* C3  Index symmetry                                                  *)
(* ------------------------------------------------------------------ *)

\* C3: every listing key of the Listing Store is in the by-lister set of its
\* listing's lister and of no other lister, in the by-source-collection set
\* of its collection, and in a by-category set exactly when the listing has
\* a category tag or is a category listing, and then in that set alone.
IndexSymmetry ==
    \A K \in DOMAIN sales :
        /\ \A L \in Accounts : K \in by_owner_id[L] <=> L = sales[K].owner_id
        /\ K \in by_nft_contract_id[sales[K].nft_contract_id]
        /\ \A t \in TypeKeys :
               K \in by_nft_token_type[t] <=>
                   \/ sales[K].token_type = Some(t)
                   \/ sales[K].is_series = Some(TRUE) /\ sales[K].token_id = t

(* ------------------------------------------------------------------ *)
(* C4  Upsert overwrite                                                *)
(* ------------------------------------------------------------------ *)

\* the last call is a single-item approval, well formed and in registered
\* currencies, by the lister of the listing already stored under its key
LastReapproves ==
    /\ LastIsNft
    /\ LastParsed
    /\ ~LastHasUnregistered
    /\ LastKey \in DOMAIN last.pre.sales
    /\ last.pre.sales[LastKey].owner_id = last.owner_id

\* the stored price conditions are those of the last approval, and the
\* by-lister and by-source-collection sets have the size they had
LastOverwrote ==
    /\ LastKey \in DOMAIN sales
    /\ sales[LastKey].conditions = ConditionsOf(LastArgs.sale_conditions)
    /\ Cardinality(by_owner_id[last.owner_id])
           = Cardinality(last.pre.by_owner_id[last.owner_id])
    /\ Cardinality(by_nft_contract_id[last.predecessor])
           = Cardinality(last.pre.by_nft_contract_id[last.predecessor])

\* C4 as stated: a second approval of the same (collection, item) by the
\* same lister, with valid price conditions that differ from the stored
\* ones (and a valid category tag, if any), replaces the stored price
\* conditions by its own and leaves the sizes of the by-lister and
\* by-source-collection sets as they were.
UpsertOverwriteAsStated ==
    ( /\ LastReapproves
      /\ last.pre.sales[LastKey].is_series = None
      /\ ConditionsOf(LastArgs.sale_conditions) # last.pre.sales[LastKey].conditions
      /\ \A tt \in LastArgs.token_type : IsSubstring(tt, last.token_id) )
    => LastOverwrote

\* C4, amended: the same, for a second approval that is accepted.
UpsertOverwrite ==
    (LastReapproves /\ last.err = "ok") => LastOverwrote

\* an accepted second approval under which a currency of the first is gone
UpsertOverwriteWitness ==
    /\ LastReapproves
    /\ last.err = "ok"
    /\ last.pre.sales[LastKey].is_series = None
    /\ \E c \in DOMAIN last.pre.sales[LastKey].conditions :
           c \notin DOMAIN sales[LastKey].conditions
    /\ sales[LastKey].conditions # EmptyMap

(* ------------------------------------------------------------------ *)
(* C5  Quota accounting rule                                           *)
(* ------------------------------------------------------------------ *)

CurrencyGateAsStated ==
    (LastIsApproval /\ LastHasUnregistered) =>
        /\ last.err = "UnsupportedCurrency"
        /\ LastKey \notin DOMAIN sales
        /\ InNoIndex(LastKey)
        /\ LastIsSeries => storage_deposits = last.pre.storage_deposits

\* C6, amended: an approval that names an unregistered currency fails and
\* leaves the Listing Store, the indices, the ledger and the promise queue
\* as they were (its key is listed only if it was before); the failure is
\* UnsupportedCurrency when the checks that come first pass: the minimum
\* deposit for a single item, the quota purchase for a category.
CurrencyGate ==
    (LastIsApproval /\ LastHasUnregistered) =>
        /\ last.err # "ok"
        /\ NothingRetained
        /\ (IF LastIsNft THEN LastPaid >= STORAGE_PER_SALE ELSE LastPurchased)
               => last.err = "UnsupportedCurrency"

\* a category approval stopped at the currency check, after its quota
\* purchase and its refund promise
CurrencyGateWitness ==
    /\ LastIsSeries
    /\ LastHasUnregistered
    /\ last.err = "UnsupportedCurrency"
    /\ last.attached_deposit > STORAGE_PER_SALE

(* ------------------------------------------------------------------ *)
(* C7  Category substring rule                                         *)
(* ------------------------------------------------------------------ *)

\* the last call is a single-item approval that carries a category tag and
\* meets every other precondition
LastTaggedAndOtherwiseValid ==
    /\ LastIsNft
    /\ LastParsed
    /\ LastArgs.token_type # None
    /\ ~LastHasUnregistered
    /\ LastPaid >= STORAGE_PER_SALE
    /\ LastPaid > LastUsed

LastTag == unwrap_or(LastArgs.token_type, <<>>)

\* C7 as stated: such an approval succeeds when the tag is a substring of
\* the item id and fails with InvalidCategoryTag when it is not, and after
\* the failure the listing is absent from the Listing Store and its key from
\* the by-lister, by-source-collection and by-category sets.
CategorySubstringRuleAsStated ==
    LastTaggedAndOtherwiseValid =>
        /\ IsSubstring(LastTag, last.token_id) => last.err = "ok"
        /\ ~IsSubstring(LastTag, last.token_id) =>
               /\ last.err = "InvalidCategoryTag"
               /\ LastKey \notin DOMAIN sales
               /\ InNoIndex(LastKey)

\* C7, amended: such an approval succeeds, storing the tag and entering the
\* key in the tag's by-category set, when the tag is a substring of the item
\* id; it fails with InvalidCategoryTag when it is not, and then the Listing
\* Store and the indices are as before the call (the key is absent unless an
\* earlier approval had listed it).
CategorySubstringRule ==
    LastTaggedAndOtherwiseValid =>
        /\ IsSubstring(LastTag, last.token_id) =>
               /\ last.err = "ok"
               /\ sales[LastKey].token_type = Some(LastTag)
               /\ LastKey \in by_nft_token_type[LastTag]
        /\ ~IsSubstring(LastTag, last.token_id) =>
               /\ last.err = "InvalidCategoryTag"
               /\ NothingRetained

\* a tag that is a substring but no prefix of the item id is accepted
CategorySubstringRuleWitness ==
    /\ LastTaggedAndOtherwiseValid
    /\ last.err = "ok"
    /\ LastTag = <<"b">>
    /\ last.token_id = <<"a", "b">>

(* ------------------------------------------------------------------ *)
(* C8  Category approval refund                                        *)
(* ------------------------------------------------------------------ *)

\* C8: a successful category approval with payment P >= C raises the
\* lister's quota balance by exactly C, leaves every other balance, and
\* issues exactly one refund, of P - C, to the lister; one that aborts
\* charges no quota and issues no refund.
CategoryRefund ==
    LastIsSeries =>
        /\ last.err = "ok" =>
               /\ last.attached_deposit >= STORAGE_PER_SALE
               /\ storage_deposits =
                      [last.pre.storage_deposits EXCEPT
                          ![last.owner_id] = @ + STORAGE_PER_SALE]
               /\ promises = last.pre_promises \o
                      << [ receiver_id |-> last.owner_id,
                           amount |-> last.attached_deposit - STORAGE_PER_SALE ] >>
        /\ last.err # "ok" =>
               /\ storage_deposits = last.pre.storage_deposits
               /\ promises = last.pre_promises

\* a successful category approval that was overpaid
CategoryRefundWitness ==
    /\ LastIsSeries
    /\ last.err = "ok"
    /\ last.attached_deposit > STORAGE_PER_SALE
    /\ promises # <<>>

(* ------------------------------------------------------------------ *)
(* C9  A category approval is never short of quota                     *)
(* ------------------------------------------------------------------ *)

\* C9: a category approval whose quota purchase succeeded and whose
\* currencies are all registered does not fail with InsufficientQuota: the
\* minimum check and the strict paid > used check both pass, whatever the
\* lister's balance and listings were before.
CategoryHasQuota ==
    (LastIsSeries /\ LastParsed /\ LastPurchased /\ ~LastHasUnregistered) =>
        /\ last.err # "InsufficientQuota"
        /\ LastPaid >= STORAGE_PER_SALE
        /\ LastPaid > LastUsed

\* a category approval by a lister who had used up all it had paid for
CategoryHasQuotaWitness ==
    /\ LastIsSeries
    /\ last.err = "ok"
    /\ last.pre.by_owner_id[last.owner_id] # {}
    /\ last.pre.storage_deposits[last.owner_id]
           = Cardinality(last.pre.by_owner_id[last.owner_id]) * STORAGE_PER_SALE

(* ------------------------------------------------------------------ *)
(* C10  The refund is decoupled from the approval                      *)
(* ------------------------------------------------------------------ *)

\* C10: when a category approval has succeeded its listing and index entries
\* are in place while its refund is still to be delivered, and when a refund
\* is resolved, delivered or rejected, the Listing Store, the indices and
\* the quota ledger stay as committed.
RefundDecoupled ==
    /\ (LastIsSeries /\ last.err = "ok") =>
           /\ LastKey \in DOMAIN sales
           /\ LastKey \in by_owner_id[last.owner_id]
           /\ Len(promises) > 0
           /\ promises[Len(promises)].receiver_id = last.owner_id
    /\ last.op = "transfer" =>
           /\ sales = last.pre.sales
           /\ by_owner_id = last.pre.by_owner_id
           /\ by_nft_contract_id = last.pre.by_nft_contract_id
           /\ by_nft_token_type = last.pre.by_nft_token_type
           /\ storage_deposits = last.pre.storage_deposits

\* a refund was rejected and the category listing of its receiver stands
RefundDecoupledWitness ==
    /\ last.op = "transfer"
    /\ last.err = "TransferFailed"
    /\ \E K \in DOMAIN sales :
           /\ sales[K].owner_id = last.owner_id
           /\ sales[K].is_series = Some(TRUE)
           /\ K \in by_owner_id[last.owner_id]
    /\ storage_deposits[last.owner_id] >= STORAGE_PER_SALE

(* ------------------------------------------------------------------ *)
(* C11  A single-item approval moves no payment                        *)
(* ------------------------------------------------------------------ *)

\* C11: after a single-item approval, accepted or not, every account's
\* deposit in the ledger is what it was before the call and no transfer has
\* been scheduled; the registry is untouched as well, so that only the
\* Listing Store and the indices can differ.
NoPaymentMovement ==
    LastIsNft =>
        /\ storage_deposits = last.pre.storage_deposits
        /\ promises = last.pre_promises
        /\ ft_token_ids = last.pre.ft_token_ids

\* an accepted single-item approval of a lister with a deposit, which wrote
\* the Listing Store and the lister's set
NoPaymentMovementWitness ==
    /\ LastIsNft
    /\ last.err = "ok"
    /\ sales # last.pre.sales
    /\ by_owner_id # last.pre.by_owner_id
    /\ storage_deposits[last.owner_id] > STORAGE_PER_SALE

(* ------------------------------------------------------------------ *)
(* C12  Stored currencies are registered                               *)
(* ------------------------------------------------------------------ *)

\* C12: every currency key of the price conditions of every stored listing
\* is in the registry, and the price conditions an accepted approval of
\* either kind has just written name only currencies that were in the
\* registry when the call began.
StoredCurrenciesRegistered ==
    /\ \A K \in DOMAIN sales : DOMAIN sales[K].conditions \subseteq ft_token_ids
    /\ (LastIsApproval /\ last.err = "ok") =>
           DOMAIN sales[LastKey].conditions \subseteq last.pre.ft_token_ids

\* a single-item listing and a category listing are stored side by side,
\* each with a price in some currency
StoredCurrenciesRegisteredWitness ==
    \E K1 \in DOMAIN sales, K2 \in DOMAIN sales :
        /\ sales[K1].is_series = None
        /\ sales[K2].is_series = Some(TRUE)
        /\ sales[K1].conditions # EmptyMap
        /\ sales[K2].conditions # EmptyMap

(* ------------------------------------------------------------------ *)
(* C13  Last writer wins                                               *)
(* ------------------------------------------------------------------ *)

\* the fields of a stored record that an approval decides
Decided(sale) ==
    [ owner_id |-> sale.owner_id,
      approval_id |-> sale.approval_id,
      token_id |-> sale.token_id,
      nft_contract_id |-> sale.nft_contract_id,
      conditions |-> sale.conditions,
      is_series |-> sale.is_series,
      token_type |-> sale.token_type ]

\* the same fields, as the arguments of the last approval give them
LastDecided ==
    [ owner_id |-> last.owner_id,
      approval_id |-> IF LastIsNft THEN last.approval_id ELSE 0,
      token_id |-> last.token_id,
      nft_contract_id |-> last.predecessor,
      conditions |-> ConditionsOf(LastArgs.sale_conditions),
      is_series |-> IF LastIsNft THEN None ELSE Some(TRUE),
      token_type |-> IF LastIsNft THEN LastArgs.token_type ELSE None ]

\* C13: the record stored under the key of an accepted approval equals,
\* field for field, the record that approval builds, whatever was stored
\* under the key before and whichever variant had written it; and the record
\* under any other key, and under every key after a call that was not an
\* accepted approval, is the record that was there before. Hence the record
\* under K is always that of the most recent accepted approval for K.
LastWriterWins ==
    /\ (LastIsApproval /\ last.err = "ok") =>
           /\ LastKey \in DOMAIN sales
           /\ Decided(sales[LastKey]) = LastDecided
           /\ sales[LastKey].bids = None
    /\ \A K \in DOMAIN sales :
           (LastIsApproval /\ last.err = "ok" /\ K = LastKey)
           \/ (K \in DOMAIN last.pre.sales /\ sales[K] = last.pre.sales[K])
    /\ DOMAIN last.pre.sales \subseteq DOMAIN sales

\* an accepted single-item approval over a category listing of the same key
\* and another lister, with other approval token, flag and price conditions
LastWriterWinsWitness ==
    /\ LastIsNft
    /\ last.err = "ok"
    /\ LastKey \in DOMAIN last.pre.sales
    /\ last.pre.sales[LastKey].is_series = Some(TRUE)
    /\ last.pre.sales[LastKey].owner_id # last.owner_id
    /\ last.pre.sales[LastKey].conditions # sales[LastKey].conditions
    /\ LastArgs.token_type # None

(* ------------------------------------------------------------------ *)
(* C14  What each variant stores                                       *)
(* ------------------------------------------------------------------ *)

\* C14: an accepted category approval stores approval token zero, the flag
\* set, no category tag and the category name as item id, and its key is in
\* the by-category set of the category name; an accepted single-item
\* approval stores the approval token it was given and no flag, and the
\* by-category sets are as before, but for the set of its category tag,
\* when it has one, which has gained the key.
VariantRecord ==
    /\ (LastIsSeries /\ last.err = "ok") =>
           /\ sales[LastKey].approval_id = 0
           /\ sales[LastKey].is_series = Some(TRUE)
           /\ sales[LastKey].token_type = None
           /\ sales[LastKey].token_id = last.token_id
           /\ by_nft_token_type =
                  [last.pre.by_nft_token_type EXCEPT ![last.token_id] = @ \cup {LastKey}]
    /\ (LastIsNft /\ last.err = "ok") =>
           /\ sales[LastKey].approval_id = last.approval_id
           /\ sales[LastKey].is_series = None
           /\ LastArgs.token_type = None =>
                  by_nft_token_type = last.pre.by_nft_token_type
           /\ \A tt \in LastArgs.token_type :
                  by_nft_token_type =
                      [last.pre.by_nft_token_type EXCEPT ![tt] = @ \cup {LastKey}]

\* an accepted category approval over a single-item listing that carried a
\* nonzero approval token and a category tag
VariantRecordWitness ==
    /\ LastIsSeries
    /\ last.err = "ok"
    /\ LastKey \in DOMAIN last.pre.sales
    /\ last.pre.sales[LastKey].approval_id # 0
    /\ last.pre.sales[LastKey].token_type # None
    /\ LastKey \notin last.pre.by_nft_token_type[last.token_id]

(* ------------------------------------------------------------------ *)
(* C15  Where the quota checks stand in the handler                    *)
(* ------------------------------------------------------------------ *)

\* the block timestamp the last call read
LastNow == IF last.err = "ok" THEN block_timestamp - 1 ELSE block_timestamp

\* the last approval, run again on the state before it up to its return or
\* its panic: the fields as the call had written them at that point
LastRun ==
    IF LastIsNft
    THEN nft_on_approve(last.pre, LastNow, last.predecessor, last.token_id,
                        last.owner_id, last.approval_id, last.msg)
    ELSE series_on_approve(last.pre, LastNow, last.predecessor,
                           last.attached_deposit, last.token_id, last.owner_id,
                           last.msg)

\* the three indices of a contract value
Indices(self) ==
    <<self.by_owner_id, self.by_nft_contract_id, self.by_nft_token_type>>

\* C15 as stated: the handler proceeds quota check, price-condition
\* validation, Listing Store write, index updates: when an approval fails
\* its quota check, neither the Listing Store nor an index has been written
\* by the call, and with paid <= used the quota failure is what a request
\* with an unregistered currency reports.
QuotaOrderingAsStated ==
    LastIsApproval =>
        LET run == LastRun
        IN  /\ run.err = "InsufficientQuota" =>
                   /\ run.self.sales = last.pre.sales
                   /\ Indices(run.self) = Indices(last.pre)
            /\ ( /\ LastPaid <= LastUsed
                 /\ LastHasUnregistered
                 /\ LastIsSeries => LastPurchased )
               => last.err = "InsufficientQuota"

\* C15, amended: the minimum check (one unit paid) stands before every
\* write of a single-item approval; the price conditions are validated
\* before the Listing Store is written; the strict check paid > used stands
\* after the Listing Store write and before every index update, and counts
\* the lister's set as it was before the call; when it fails, the listing
\* it finds written is discarded with the call.
QuotaOrdering ==
    LastIsApproval =>
        LET run == LastRun
        IN  /\ run.err = last.err
            /\ last.err = "ok" => run.self = Contract
            /\ (LastIsNft /\ LastPaid < STORAGE_PER_SALE) =>
                   (run.err = "InsufficientQuota" /\ run.self = last.pre)
            /\ run.err \in {"MalformedRequest", "UnsupportedCurrency"} =>
                   (run.self.sales = last.pre.sales
                        /\ Indices(run.self) = Indices(last.pre))
            /\ run.err = "InsufficientQuota" =>
                   Indices(run.self) = Indices(last.pre)
            /\ (run.err = "InsufficientQuota" /\ LastPaid >= STORAGE_PER_SALE) =>
                   /\ LastPaid <= LastUsed
                   /\ LastKey \in DOMAIN run.self.sales
                   /\ Decided(run.self.sales[LastKey]) = LastDecided
                   /\ sales = last.pre.sales
            /\ last.err = "ok" => LastPaid > LastUsed

\* a single-item approval of a new key by a lister whose paid units are all
\* in use: the strict check fails with the new listing already written, and
\* the listing is gone with the call
QuotaOrderingWitness ==
    /\ LastIsNft
    /\ last.err = "InsufficientQuota"
    /\ LastPaid >= STORAGE_PER_SALE
    /\ LastKey \notin DOMAIN last.pre.sales
    /\ LastKey \in DOMAIN LastRun.self.sales
    /\ LastKey \notin DOMAIN sales

(* ------------------------------------------------------------------ *)
(* C16  Construction of the price conditions                           *)
(* ------------------------------------------------------------------ *)

\* C16: the price conditions stored by an accepted approval have exactly
\* the currencies of the list as keys, and each currency has the price of
\* its last entry in the list, zero when that entry has no price.
PriceConditions ==
    (LastIsApproval /\ last.err = "ok") =>
        LET list == LastArgs.sale_conditions
            stored == sales[LastKey].conditions
        IN  /\ DOMAIN stored = {list[i].ft_token_id : i \in DOMAIN list}
            /\ \A i \in DOMAIN list :
                   (\A j \in DOMAIN list :
                        j > i => list[j].ft_token_id # list[i].ft_token_id)
                   => /\ list[i].price = None => stored[list[i].ft_token_id] = 0
                      /\ \A v \in list[i].price : stored[list[i].ft_token_id] = v

\* an accepted approval whose list names a currency twice, first with a
\* price and then without: one entry is stored, open to bids
PriceConditionsWitness ==
    /\ LastIsApproval
    /\ last.err = "ok"
    /\ Len(LastArgs.sale_conditions) = 2
    /\ LastArgs.sale_conditions[1].price # None
    /\ LastArgs.sale_conditions[2].price = None
    /\ sales[LastKey].conditions = [c \in {"near"} |-> 0]

(* ------------------------------------------------------------------ *)
(* C17  No orphaned index entries                                      *)
(* ------------------------------------------------------------------ *)

\* C17: every listing key in a by-lister, by-source-collection or
\* by-category set is a key of the Listing Store.
NoOrphans ==
    /\ \A a \in Accounts : by_owner_id[a] \subseteq DOMAIN sales
    /\ \A c \in NftContracts : by_nft_contract_id[c] \subseteq DOMAIN sales
    /\ \A t \in TypeKeys : by_nft_token_type[t] \subseteq DOMAIN sales

\* an approval was accepted, and the last call is an approval of another
\* key that was aborted on its category tag, after its listing and two index
\* entries had been written: the indices hold the first key only
NoOrphansWitness ==
    /\ LastIsNft
    /\ last.err = "InvalidCategoryTag"
    /\ LastKey \in LastRun.self.by_owner_id[last.owner_id]
    /\ LastKey \notin DOMAIN sales
    /\ InNoIndex(LastKey)
    /\ \E a \in Accounts : by_owner_id[a] # {}

(* ------------------------------------------------------------------ *)
(* C18  Collections do not reach into each other                       *)
(* ------------------------------------------------------------------ *)

\* C18 (the collection identifiers of the model hold no delimiter): every
\* stored key is its listing's collection, the delimiter and its item id;
\* after an accepted approval invoked by collection C for item or category
\* I, the only listing written is the one under C, delimiter, I, and it
\* names C as its collection; every listing of another collection is as it
\* was; C's by-source-collection set has gained that key and every other
\* collection's set is as it was.
CollectionIsolation ==
    /\ \A K \in DOMAIN sales :
           K = sales[K].nft_contract_id \o DELIMETER \o sales[K].token_id
    /\ (LastIsApproval /\ last.err = "ok") =>
           LET C == last.predecessor
               key == C \o DELIMETER \o last.token_id
           IN  /\ key \in DOMAIN sales
               /\ sales[key].nft_contract_id = C
               /\ \A K \in DOMAIN sales :
                      K # key => (K \in DOMAIN last.pre.sales
                                     /\ sales[K] = last.pre.sales[K])
               /\ \A K \in DOMAIN last.pre.sales :
                      last.pre.sales[K].nft_contract_id # C =>
                          (K \in DOMAIN sales /\ sales[K] = last.pre.sales[K])
               /\ by_nft_contract_id =
                      [last.pre.by_nft_contract_id EXCEPT ![C] = @ \cup {key}]

\* an accepted approval from one collection for an item id under which
\* another collection has a listing, which stands as it was
CollectionIsolationWitness ==
    /\ LastIsApproval
    /\ last.err = "ok"
    /\ \E K \in DOMAIN last.pre.sales :
           /\ last.pre.sales[K].nft_contract_id # last.predecessor
           /\ last.pre.sales[K].token_id = last.token_id
           /\ K \in DOMAIN sales
           /\ sales[K] = last.pre.sales[K]
    /\ LastKey \notin DOMAIN last.pre.sales

(* ------------------------------------------------------------------ *)
(* C19  Growth and frame of the by-lister sets                         *)
(* ------------------------------------------------------------------ *)

\* C19: after an accepted approval naming lister L, L's by-lister set is
\* its set before the call with the key added: one larger if the key was
\* new to it, of the same size if it was a member; no key has left the
\* Listing Store or an index set; every other lister's set and every other
\* account's deposit are as they were.
ListerGrowth ==
    (LastIsApproval /\ last.err = "ok") =>
        LET L == last.owner_id
        IN  /\ by_owner_id[L] = last.pre.by_owner_id[L] \cup {LastKey}
            /\ Cardinality(by_owner_id[L]) =
                   Cardinality(last.pre.by_owner_id[L])
                       + (IF LastKey \in last.pre.by_owner_id[L] THEN 0 ELSE 1)
            /\ DOMAIN last.pre.sales \subseteq DOMAIN sales
            /\ \A a \in Accounts : last.pre.by_owner_id[a] \subseteq by_owner_id[a]
            /\ \A c \in NftContracts :
                   last.pre.by_nft_contract_id[c] \subseteq by_nft_contract_id[c]
            /\ \A t \in TypeKeys :
                   last.pre.by_nft_token_type[t] \subseteq by_nft_token_type[t]
            /\ \A a \in Accounts \ {L} :
                   /\ by_owner_id[a] = last.pre.by_owner_id[a]
                   /\ storage_deposits[a] = last.pre.storage_deposits[a]

\* an accepted approval of a key that is in the lister's set already: the
\* set keeps its size
ListerGrowthWitness ==
    /\ LastIsApproval
    /\ last.err = "ok"
    /\ LastKey \in last.pre.by_owner_id[last.owner_id]
    /\ Cardinality(by_owner_id[last.owner_id]) = 1

====
